---- MODULE Spec2Model ----
(***************************************************************************)
(* Model of the LLM-Ops generator: the DynamoDB lease lock                 *)
(* (core/lock_backend.py), the orchestrator run_pipeline (core/engine.py)  *)
(* and the collaborators it drives (core/state_backend.py,                 *)
(* deploy/repo_manager.py).                                                *)
(*                                                                         *)
(* Several independent invocations of run_pipeline (Procs) run             *)
(* concurrently against one lock table, one state document and one remote  *)
(* host.  Each invocation is sequential; every call it makes to a          *)
(* collaborator is one atomic step, appended to calls[p].                  *)
(*                                                                         *)
(* Spec runs both runners for one project from an empty state document;    *)
(* SpecSerial runs one runner over state left by earlier runs;             *)
(* SpecTwoProjects runs the runners for different projects.  SpecStore     *)
(* drives a state backend on its own, with the document as JSON text, and  *)
(* SpecSync drives upload_template_folder and upload_file on their own,    *)
(* file by file.  SpecRepo drives ensure_repo request by request, SpecSlug *)
(* applies _slugify to names character by character, SpecDoc follows the   *)
(* state document, in full, through runs made one after the other, and     *)
(* SpecRead follows one template file through is_text_file and the read    *)
(* that comes after it.                                                    *)
(***************************************************************************)
EXTENDS Integers, Sequences, FiniteSets, TLC

\* ------------------------------------------------------------- bounds
MaxInvocations == 3  \* invocations of run_pipeline started in all
MaxClock == 3        \* the wall clock runs from 0 to MaxClock seconds
TtlSeconds == 1      \* DynamoLock(ttl_seconds=...)
WaitSeconds == 2     \* acquire(wait_seconds=...)
PollInterval == 1    \* acquire(poll_interval=...)
NFiles == 2          \* template files found by the walk of the templates folder

\* the runners that invoke run_pipeline concurrently
Procs == {"r1", "r2"}
Files == 1..NFiles

NoLease == -1        \* the table holds no item for lock_id
NoName == ""         \* no repo_name recorded for a project (empty or missing)

AcmeCorp == "Acme Corp"
Bot2 == " bot__2 "

\* The characters of the strings the code takes apart or puts together: a
\* string is atomic, its characters are a sequence of one-character strings.
Chars ==
    ("Acme Corp" :>
        <<"A", "c", "m", "e", " ", "C", "o", "r", "p">>) @@
    (" bot__2 " :>
        <<" ", "b", "o", "t", "_", "_", "2", " ">>) @@
    ("Infoservices-acme-corp-llm" :>
        <<"I", "n", "f", "o", "s", "e", "r", "v", "i", "c", "e", "s", "-",
          "a", "c", "m", "e", "-", "c", "o", "r", "p", "-", "l", "l", "m">>) @@
    ("Infoservices-bot-2-llm" :>
        <<"I", "n", "f", "o", "s", "e", "r", "v", "i", "c", "e", "s", "-",
          "b", "o", "t", "-", "2", "-", "l", "l", "m">>)

\* the string made of the characters seq ("?" for one not listed in Chars)
Text(seq) ==
    IF \E t \in DOMAIN Chars : Chars[t] = seq
    THEN CHOOSE t \in DOMAIN Chars : Chars[t] = seq
    ELSE "?"

\* values of LLMOPS_PROJECT_NAME
Projects == {AcmeCorp, Bot2}
\* the generated workspace.yaml, uploaded after the template files
WorkspaceYaml == NFiles + 1

VARIABLES
    clock,      \* time.time(); the clock is kept in whole seconds, so int() is exact
    lease,      \* ExpiresAt of the item stored under lock_id, or NoLease
    pc,         \* the statement each invocation is about to execute
    deadline,   \* acquire: local deadline
    now,        \* acquire: local now
    expires_at, \* acquire: local expires_at, the value this invocation wrote
    wake,       \* time.sleep(poll_interval): earliest time of return
    project,    \* LLMOPS_PROJECT_NAME of each invocation
    state,      \* run_pipeline: local state document, project -> repo_name
    idx,        \* upload_template_folder: next template file to upload
    acquired,   \* run_pipeline: local acquired, "unset" until acquire() returns
    calls,      \* the calls each invocation has made to its collaborators
    outcome,    \* how run_pipeline ended: "none", "returned", "raised"
    error,      \* the statement whose exception is propagating, or "none"
    stateDoc,   \* the stored state document, project -> repo_name
    repos,      \* repositories that exist on the remote host
    remote,     \* files held by each repository
    secrets,    \* repositories that hold the PHOENIX_BASE_URL secret
    started     \* number of invocations started so far

\* A state backend used on its own (core/state_backend.py)
VARIABLES
    backend,    \* get_state_backend(): "s3" or "local"
    blob,       \* the S3 object / the local file: whether it exists, and its text
    saved,      \* the document of the last save_state, while the store still holds it
    loaded,     \* what the last load_state did: returned a document, or raised
    sbOp        \* the last operation on the store

pipeVars == <<clock, lease, pc, deadline, now, expires_at, wake, project, state,
              idx, acquired, calls, outcome, error, stateDoc, repos, remote, secrets,
              started>>

\* A sync of a templates folder on its own (deploy/repo_manager.py)
VARIABLES
    tree,       \* the files under the templates folder, as paths from the folder
    hostFile,   \* the repository: the sha of the file at each path, or NoSha
    syPc,       \* where upload_template_folder / upload_file stands
    syRun,      \* number of syncs started
    runsDone,   \* number of syncs that returned
    dirs,       \* os.walk: directories still to be listed
    files,      \* os.walk: files of the listed directory still to be handled
    discovered, \* upload_template_folder: discovered
    cur,        \* upload_file: path
    sha,        \* upload_file: sha
    attempt,    \* upload_file: attempt
    puts,       \* the PUT requests sent by the sync under way
    syError     \* why the last sync raised, or "none"

\* GitHubManager.ensure_repo on its own (deploy/repo_manager.py)
VARIABLES
    hostRepos,  \* the owner's repositories on the host: name -> metadata, or NoRepo
    ownerType,  \* "type" of the owner on the host: "Organization" or "User"
    erPc,       \* where ensure_repo stands
    erArgs,     \* ensure_repo: repo_name, private, description
    erRet,      \* what the last call of ensure_repo returned, or NoRepo
    erLog,      \* the requests sent by the call under way, each with its status
    erCalls,    \* number of calls of ensure_repo so far
    created     \* for each name, the number of POST requests the host accepted

\* _slugify on its own (core/engine.py)
VARIABLES
    rawName,    \* _slugify: name
    slugged     \* the value _slugify returned

\* is_text_file and the read that follows it in upload_template_folder
VARIABLES
    content,    \* the bytes of the file at full_path
    rdPc,       \* where the handling of the file stands
    isText,     \* what is_text_file returned, "unset" before
    readAs      \* the mode in which the whole file was read, "none" before

\* run_pipeline's handling of the state document, with the document in full
VARIABLES
    document,   \* the state document the backend holds
    loadedDoc,  \* what load_state returned to the run under way
    runState,   \* run_pipeline: state
    runProject, \* run_pipeline: project_name
    runPc,      \* where the run stands
    runCount    \* number of runs started

storeVars == <<backend, blob, saved, loaded, sbOp>>
syncVars == <<tree, hostFile, syPc, syRun, runsDone, dirs, files, discovered,
              cur, sha, attempt, puts, syError>>
repoVars == <<hostRepos, ownerType, erPc, erArgs, erRet, erLog, erCalls, created>>
slugVars == <<rawName, slugged>>
readVars == <<content, rdPc, isText, readAs>>
docVars == <<document, loadedDoc, runState, runProject, runPc, runCount>>
\* the functions driven on their own
fnVars == <<repoVars, slugVars, readVars, docVars>>
\* what run_pipeline, modelled with the state document as a mapping, leaves alone
unitVars == <<storeVars, syncVars, fnVars>>

vars == <<pipeVars, unitVars>>

lockVars == <<lease, deadline, now, expires_at, wake>>
hostVars == <<stateDoc, repos, remote, secrets>>
runVars == <<state, idx, started>>
endVars == <<acquired, outcome, error>>

\* Locals of acquire and run_pipeline are set back to their initial value when
\* the code no longer reads them.

\* ------------------------------------------------------------- helpers
\* a ConditionExpression that also takes a lease expiring at :now
ConditionHoldsNonStrict(item, n) == item = NoLease \/ item <= n

\* put_item's ConditionExpression:
\*   attribute_not_exists(LockID) OR ExpiresAt < :now
ConditionHolds(item, n) == item = NoLease \/ item < n

\* deadline = time.time() + wait_seconds
DeadlineFor(t) == t + WaitSeconds

\* a sleep that returns at once
WakeAtOnce(t) == t

\* time.sleep(poll_interval) returns at this time or later
WakeFor(t) == t + PollInterval

\* an expires_at that leaves out the ttl
ExpiresAtNoTtl(n) == n

\* expires_at = now + self.ttl_seconds
ExpiresAtFor(n) == n + TtlSeconds

\* a deadline test that lets the call go on at the deadline itself
DeadlineReachedLate(t, d) == t > d

\* if time.time() >= deadline
DeadlineReached(t, d) == t >= d

\* f"Infoservices-{project_slug}-llm"
\* ---- _slugify
LowerCase == <<"a", "b", "c", "d", "e", "f", "g", "h", "i", "j", "k", "l", "m", "n", "o", "p", "q", "r", "s", "t", "u", "v", "w", "x", "y", "z">>
UpperCase == <<"A", "B", "C", "D", "E", "F", "G", "H", "I", "J", "K", "L", "M", "N", "O", "P", "Q", "R", "S", "T", "U", "V", "W", "X", "Y", "Z">>
DigitChars == <<"0", "1", "2", "3", "4", "5", "6", "7", "8", "9">>
\* characters str.strip() removes
Whitespace == {" ", "\t", "\n"}

RECURSIVE LStrip(_, _)
LStrip(s, cs) == IF s # <<>> /\ Head(s) \in cs THEN LStrip(Tail(s), cs) ELSE s

RECURSIVE RStrip(_, _)
RStrip(s, cs) ==
    IF s # <<>> /\ s[Len(s)] \in cs THEN RStrip(SubSeq(s, 1, Len(s) - 1), cs) ELSE s

\* a strip that removes nothing
NoStrip(s, cs) == s

\* str.strip(chars)
Strip(s, cs) == RStrip(LStrip(s, cs), cs)

LowerChar(c) ==
    IF \E i \in 1..Len(UpperCase) : UpperCase[i] = c
    THEN LowerCase[CHOOSE i \in 1..Len(UpperCase) : UpperCase[i] = c]
    ELSE c

\* str.lower()
Lower(s) == [i \in 1..Len(s) |-> LowerChar(s[i])]

\* the class [a-z0-9]
IsSlugChar(c) ==
    \/ \E i \in 1..Len(LowerCase) : LowerCase[i] = c
    \/ \E i \in 1..Len(DigitChars) : DigitChars[i] = c

\* the regular expressions of _slugify, by what one character must satisfy
Matches(c, pattern) ==
    IF pattern = "[^a-z0-9]+" THEN ~IsSlugChar(c) ELSE c = "-"

\* re.sub(pattern, "-", s) for a pattern that matches runs of one class
RECURSIVE ReSub(_, _)
ReSub(pattern, s) ==
    IF s = <<>> THEN <<>>
    ELSE IF Matches(Head(s), pattern)
         THEN IF Len(s) > 1 /\ Matches(s[2], pattern)
              THEN ReSub(pattern, Tail(s))
              ELSE <<"-">> \o ReSub(pattern, Tail(s))
         ELSE <<Head(s)>> \o ReSub(pattern, Tail(s))

LlmProject == <<"l", "l", "m", "-", "p", "r", "o", "j", "e", "c", "t">>

\* a slug that keeps the case of the name
SlugifyKeepingCase(name) ==
    LET stripped == Strip(name, Whitespace)
        dashed == ReSub("[^a-z0-9]+", stripped)
        slug == Strip(ReSub("-+", dashed), {"-"})
    IN  IF slug = <<>> THEN LlmProject ELSE slug

Slugify(name) ==
    LET lowered == Lower(Strip(name, Whitespace))
        dashed == ReSub("[^a-z0-9]+", lowered)
        slug == Strip(ReSub("-+", dashed), {"-"})
    IN  IF slug = <<>> THEN LlmProject ELSE slug

InfoservicesPrefix == <<"I", "n", "f", "o", "s", "e", "r", "v", "i", "c", "e", "s", "-">>
LlmSuffix == <<"-", "l", "l", "m">>

\* f"Infoservices-{project_slug}-llm"
DerivedRepoNames ==
    [proj \in Projects |->
        Text(InfoservicesPrefix \o Slugify(Chars[proj]) \o LlmSuffix)]

DerivedRepoName(proj) == DerivedRepoNames[proj]

\* a repo_name derived anew on every run
RepoNameRecomputed(st, proj) == DerivedRepoName(proj)

\* repo_name = project_state.get("repo_name") or f"Infoservices-{project_slug}-llm"
RepoNameOf(st, proj) == IF st[proj] # NoName THEN st[proj] ELSE DerivedRepoName(proj)

\* a repo_name recorded by an earlier run that derived names differently
LegacyRepoName == "acme-llm"

RepoNames == {DerivedRepoName(proj) : proj \in Projects} \cup {LegacyRepoName}

EmptyDoc == [proj \in Projects |-> NoName]

\* the statements between acquire() returning True and the call of release()
CriticalPcs == {"load_state", "ensure_repo", "push_templates", "add_secret",
                "upload_file", "save_state", "write_output", "release"}

InCritical(p) == pc[p] \in CriticalPcs

\* calls[p] records each call as <<name, argument>>; the argument is the file
\* of an upload and 0 otherwise
CallWith(p, name, arg) == calls' = [calls EXCEPT ![p] = Append(@, <<name, arg>>)]

Call(p, name) == CallWith(p, name, 0)

Goto(p, label) == pc' = [pc EXCEPT ![p] = label]

\* an exception that leaves run_pipeline without running the finally clause
RaiseSkippingFinally(p, where) ==
    /\ error' = [error EXCEPT ![p] = where]
    /\ Goto(p, "done")

\* an exception that is logged while the run goes on with the upload of
\* workspace.yaml
RaiseAndContinue(p, where) ==
    /\ error' = [error EXCEPT ![p] = where]
    /\ Goto(p, "upload_file")

\* an exception raised inside the try block: control passes to the finally clause
RaiseInTry(p, where) ==
    /\ error' = [error EXCEPT ![p] = where]
    /\ Goto(p, "release")

\* an exception raised as if acquire() were called inside the try block
RaiseIntoFinally(p, where) ==
    /\ error' = [error EXCEPT ![p] = where]
    /\ outcome' = outcome
    /\ Goto(p, "release")

\* an exception raised before the try block: run_pipeline ends at once
RaiseBeforeTry(p, where) ==
    /\ error' = [error EXCEPT ![p] = where]
    /\ outcome' = [outcome EXCEPT ![p] = "raised"]
    /\ Goto(p, "done")

\* ------------------------------------------------------------- initial state
\* No invocation has started; nothing is stored yet.
\* no invocation is running: the lock table is empty, locals hold defaults
LocalsAtRest ==
    /\ clock = 0
    /\ lease = NoLease
    /\ deadline = [p \in Procs |-> 0]
    /\ now = [p \in Procs |-> 0]
    /\ expires_at = [p \in Procs |-> 0]
    /\ wake = [p \in Procs |-> 0]
    /\ state = [p \in Procs |-> EmptyDoc]
    /\ idx = [p \in Procs |-> 1]
    /\ acquired = [p \in Procs |-> "unset"]
    /\ calls = [p \in Procs |-> <<>>]
    /\ outcome = [p \in Procs |-> "none"]
    /\ error = [p \in Procs |-> "none"]
    /\ secrets = {}

\* no invocation has started
NothingStarted == LocalsAtRest /\ started = 0

\* no state backend is being used on its own
StoreAtRest ==
    /\ backend = "none"
    /\ blob = <<>>
    /\ saved = <<>>
    /\ loaded = <<>>
    /\ sbOp = "none"

\* no sync is being run on its own
SyncAtRest ==
    /\ tree = {}
    /\ hostFile = <<>>
    /\ syPc = "idle"
    /\ syRun = 0
    /\ runsDone = 0
    /\ dirs = {}
    /\ files = {}
    /\ discovered = {}
    /\ cur = <<>>
    /\ sha = <<>>
    /\ attempt = 0
    /\ puts = {}
    /\ syError = "none"

RepoAtRest ==
    /\ hostRepos = <<>>
    /\ ownerType = "User"
    /\ erPc = "off"
    /\ erArgs = <<>>
    /\ erRet = <<>>
    /\ erLog = <<>>
    /\ erCalls = 0
    /\ created = <<>>

SlugAtRest == rawName = <<>> /\ slugged = <<>>

ReadAtRest ==
    /\ content = <<>>
    /\ rdPc = "off"
    /\ isText = "unset"
    /\ readAs = "none"

DocAtRest ==
    /\ document = <<>>
    /\ loadedDoc = <<>>
    /\ runState = <<>>
    /\ runProject = ""
    /\ runPc = "off"
    /\ runCount = 0

FunctionsAtRest == RepoAtRest /\ SlugAtRest /\ ReadAtRest /\ DocAtRest

UnitsAtRest == StoreAtRest /\ SyncAtRest /\ FunctionsAtRest

\* nothing is stored yet and both runners are ready to invoke run_pipeline
PipelineAtRest ==
    /\ NothingStarted
    /\ pc = [p \in Procs |-> "idle"]
    /\ project = [p \in Procs |-> AcmeCorp]
    /\ stateDoc = EmptyDoc
    /\ repos = {}
    /\ remote = [r \in RepoNames |-> {}]

Init == PipelineAtRest /\ UnitsAtRest

\* ------------------------------------------------------------- main
\* run_pipeline(mode="generator", ...) is started on runner p, for the project
\* named by the runner's LLMOPS_PROJECT_NAME; a runner whose invocation has
\* ended may start another one.  The invocation runs up to the first
\* statement of lock_backend.acquire():
\*   deadline = time.time() + wait_seconds
Invoke(p) ==
    /\ pc[p] \in {"idle", "done"}
    /\ started < MaxInvocations
    /\ started' = started + 1
    /\ calls' = [calls EXCEPT ![p] = <<>>]
    /\ acquired' = [acquired EXCEPT ![p] = "unset"]
    /\ outcome' = [outcome EXCEPT ![p] = "none"]
    /\ error' = [error EXCEPT ![p] = "none"]
    /\ deadline' = [deadline EXCEPT ![p] = DeadlineFor(clock)]
    /\ state' = [state EXCEPT ![p] = EmptyDoc]
    /\ Goto(p, "attempt")
    /\ UNCHANGED <<clock, lease, now, expires_at, wake, project, idx, hostVars>>
    /\ UNCHANGED unitVars

\* ------------------------------------------------------------- DynamoLock.acquire
\* (after time.sleep(poll_interval) has returned, if the loop slept)
\* now = int(time.time()); expires_at = now + self.ttl_seconds
Attempt(p) ==
    /\ pc[p] = "attempt"
    /\ clock >= wake[p]
    /\ now' = [now EXCEPT ![p] = clock]
    /\ expires_at' = [expires_at EXCEPT ![p] = ExpiresAtFor(clock)]
    /\ wake' = [wake EXCEPT ![p] = 0]
    /\ Goto(p, "put_item")
    /\ UNCHANGED <<clock, lease, deadline, project, calls, endVars,
                   runVars, hostVars>>
    /\ UNCHANGED unitVars

\* put_item accepted: the item is written, acquire returns True
PutItemAccepted(p) ==
    /\ pc[p] = "put_item"
    /\ ConditionHolds(lease, now[p])
    /\ lease' = expires_at[p]
    /\ Call(p, "put_item")
    /\ Goto(p, "load_state")
    /\ deadline' = [deadline EXCEPT ![p] = 0]
    /\ now' = [now EXCEPT ![p] = 0]
    /\ acquired' = [acquired EXCEPT ![p] = "true"]
    /\ UNCHANGED <<clock, expires_at, wake, project,
                   outcome, error, runVars, hostVars>>
    /\ UNCHANGED unitVars

\* put_item rejected with ConditionalCheckFailedException
PutItemRejected(p) ==
    /\ pc[p] = "put_item"
    /\ ~ConditionHolds(lease, now[p])
    /\ Call(p, "put_item")
    /\ Goto(p, "check_deadline")
    /\ now' = [now EXCEPT ![p] = 0]
    /\ expires_at' = [expires_at EXCEPT ![p] = 0]
    /\ UNCHANGED <<clock, lease, deadline, wake, project, endVars,
                   runVars, hostVars>>
    /\ UNCHANGED unitVars

\* any error of put_item handled as if the lock were held: go on polling
PutItemErrorAsContention(p) ==
    /\ pc[p] = "put_item"
    /\ Call(p, "put_item")
    /\ Goto(p, "check_deadline")
    /\ now' = [now EXCEPT ![p] = 0]
    /\ expires_at' = [expires_at EXCEPT ![p] = 0]
    /\ UNCHANGED <<clock, lease, deadline, wake, project, endVars,
                   runVars, hostVars>>
    /\ UNCHANGED unitVars

\* put_item fails with any other error: acquire re-raises it, and run_pipeline
\* (which calls acquire outside its try block) ends with it
PutItemError(p) ==
    /\ pc[p] = "put_item"
    /\ Call(p, "put_item")
    /\ RaiseBeforeTry(p, "acquire")
    /\ deadline' = [deadline EXCEPT ![p] = 0]
    /\ now' = [now EXCEPT ![p] = 0]
    /\ expires_at' = [expires_at EXCEPT ![p] = 0]
    /\ UNCHANGED <<clock, lease, wake, project, acquired, runVars, hostVars>>
    /\ UNCHANGED unitVars

\* if time.time() >= deadline: return False
\*   (run_pipeline: if not acquired: raise RuntimeError(...))
\* else: time.sleep(poll_interval)
CheckDeadline(p) ==
    /\ pc[p] = "check_deadline"
    /\ IF DeadlineReached(clock, deadline[p])
       THEN /\ acquired' = [acquired EXCEPT ![p] = "false"]
            /\ RaiseBeforeTry(p, "lock_timeout")
            /\ deadline' = [deadline EXCEPT ![p] = 0]
            /\ UNCHANGED <<wake, calls>>
       ELSE /\ wake' = [wake EXCEPT ![p] = WakeFor(clock)]
            /\ Call(p, "sleep")
            /\ Goto(p, "attempt")
            /\ UNCHANGED <<deadline, endVars>>
    /\ UNCHANGED <<clock, lease, now, expires_at, project, runVars, hostVars>>
    /\ UNCHANGED unitVars

\* ------------------------------------------------------------- run_pipeline, try block
Repo(p) == RepoNameOf(state[p], project[p])

\* state = state_backend.load_state() or {}
LoadState(p) ==
    /\ pc[p] = "load_state"
    /\ Call(p, "load_state")
    /\ \/ /\ state' = [state EXCEPT ![p] = stateDoc]
          /\ Goto(p, "ensure_repo")
          /\ UNCHANGED error
       \/ /\ RaiseInTry(p, "load_state")
          /\ UNCHANGED state
    /\ UNCHANGED <<clock, lockVars, project, idx, started, acquired, outcome, hostVars>>
    /\ UNCHANGED unitVars

\* an ensure_repo followed at once by the save of the state document
EnsureRepoThenSave(p) ==
    /\ pc[p] = "ensure_repo"
    /\ Call(p, "ensure_repo")
    /\ \/ /\ repos' = repos \cup {Repo(p)}
          /\ Goto(p, "save_state")
          /\ UNCHANGED error
       \/ /\ RaiseInTry(p, "ensure_repo")
          /\ UNCHANGED repos
    /\ UNCHANGED <<clock, lockVars, project, runVars, acquired, outcome,
                   stateDoc, remote, secrets>>
    /\ UNCHANGED unitVars

\* repo_info = repo_manager.ensure_repo(...): GET the repository; 200 returns
\* it, 404 creates it, anything else (or a failed create) raises
EnsureRepo(p) ==
    /\ pc[p] = "ensure_repo"
    /\ Call(p, "ensure_repo")
    /\ \/ /\ repos' = repos \cup {Repo(p)}
          /\ Goto(p, "push_templates")
          /\ UNCHANGED error
       \/ /\ RaiseInTry(p, "ensure_repo")
          /\ UNCHANGED repos
    /\ UNCHANGED <<clock, lockVars, project, runVars, acquired, outcome,
                   stateDoc, remote, secrets>>
    /\ UNCHANGED unitVars

\* repo_manager.push_templates(repo_name, templates_dir): one upload_file per
\* template file, in the order of the walk; the first failure raises
PushTemplates(p) ==
    /\ pc[p] = "push_templates"
    /\ CallWith(p, "upload", idx[p])
    /\ \/ /\ remote' = [remote EXCEPT ![Repo(p)] = @ \cup {idx[p]}]
          /\ IF idx[p] < NFiles
             THEN /\ idx' = [idx EXCEPT ![p] = @ + 1]
                  /\ UNCHANGED pc
             ELSE /\ idx' = [idx EXCEPT ![p] = 1]
                  /\ Goto(p, "add_secret")
          /\ UNCHANGED error
       \/ /\ RaiseInTry(p, "push_templates")
          /\ idx' = [idx EXCEPT ![p] = 1]
          /\ UNCHANGED remote
    /\ UNCHANGED <<clock, lockVars, project, state, started, acquired, outcome,
                   stateDoc, repos, secrets>>
    /\ UNCHANGED unitVars

\* an add_secret whose exception is not caught by run_pipeline
AddSecretFatal(p) ==
    /\ pc[p] = "add_secret"
    /\ \/ /\ Call(p, "add_secret")
          /\ secrets' = secrets \cup {Repo(p)}
          /\ Goto(p, "upload_file")
          /\ UNCHANGED error
       \/ /\ Call(p, "add_secret_failed")
          /\ RaiseInTry(p, "add_secret")
          /\ UNCHANGED secrets
       \/ /\ Goto(p, "upload_file")
          /\ UNCHANGED <<calls, secrets, error>>
    /\ UNCHANGED <<clock, lockVars, project, runVars, acquired, outcome,
                   stateDoc, repos, remote>>
    /\ UNCHANGED unitVars

\* if phoenix_url: try: repo_manager.add_secret(...) except Exception: log
\* else: warn
\* calls[p] records an add_secret that raised as "add_secret_failed"
\* (logger.exception("Failed to add PHOENIX_BASE_URL secret ...")).
AddSecret(p) ==
    /\ pc[p] = "add_secret"
    /\ \/ /\ Call(p, "add_secret")
          /\ secrets' = secrets \cup {Repo(p)}
       \/ /\ Call(p, "add_secret_failed")
          /\ UNCHANGED secrets
       \/ UNCHANGED <<calls, secrets>>
    /\ Goto(p, "upload_file")
    /\ UNCHANGED <<clock, lockVars, project, runVars, acquired, outcome, error,
                   stateDoc, repos, remote>>
    /\ UNCHANGED unitVars

\* repo_manager.upload_file(repo_name, "workspace.yaml", ws_yaml, ...)
UploadWorkspace(p) ==
    /\ pc[p] = "upload_file"
    /\ CallWith(p, "upload", WorkspaceYaml)
    /\ \/ /\ remote' = [remote EXCEPT ![Repo(p)] = @ \cup {WorkspaceYaml}]
          /\ Goto(p, "save_state")
          /\ UNCHANGED error
       \/ /\ RaiseInTry(p, "upload_file")
          /\ UNCHANGED remote
    /\ UNCHANGED <<clock, lockVars, project, runVars, acquired, outcome,
                   stateDoc, repos, secrets>>
    /\ UNCHANGED unitVars

\* a save that merges the run's entry into the stored document
SaveStateMerging(p) ==
    /\ pc[p] = "save_state"
    /\ Call(p, "save_state")
    /\ state' = [state EXCEPT ![p][project[p]] = Repo(p)]
    /\ \/ /\ stateDoc' = [stateDoc EXCEPT ![project[p]] = Repo(p)]
          /\ Goto(p, "write_output")
          /\ UNCHANGED error
       \/ /\ RaiseInTry(p, "save_state")
          /\ UNCHANGED stateDoc
    /\ UNCHANGED <<clock, lockVars, project, idx, started, acquired, outcome,
                   repos, remote, secrets>>
    /\ UNCHANGED unitVars

\* state["projects"][project_name] = project_state; state_backend.save_state(state)
SaveState(p) ==
    /\ pc[p] = "save_state"
    /\ Call(p, "save_state")
    /\ state' = [state EXCEPT ![p][project[p]] = Repo(p)]
    /\ \/ /\ stateDoc' = state'[p]
          /\ Goto(p, "write_output")
          /\ UNCHANGED error
       \/ /\ RaiseInTry(p, "save_state")
          /\ UNCHANGED stateDoc
    /\ UNCHANGED <<clock, lockVars, project, idx, started, acquired, outcome,
                   repos, remote, secrets>>
    /\ UNCHANGED unitVars

\* with open("pipeline_output.json", "w") ...: json.dump(outputs, f); return outputs
WriteOutput(p) ==
    /\ pc[p] = "write_output"
    /\ \/ /\ Goto(p, "release")
          /\ UNCHANGED error
       \/ RaiseInTry(p, "write_output")
    /\ UNCHANGED <<clock, lockVars, project, runVars, acquired, calls, outcome, hostVars>>
    /\ UNCHANGED unitVars

\* ------------------------------------------------------------- finally: DynamoLock.release
\* try: self.table.delete_item(Key={"LockID": self.lock_id})
\* except Exception: log
\* The item is deleted whoever wrote it; a failed delete is swallowed.
\* run_pipeline then returns its outputs or re-raises the pending exception.
\* a release that deletes the record only if it is the one this invocation wrote
ReleaseFenced(p) ==
    /\ pc[p] = "release"
    /\ lease' = (IF lease = expires_at[p] THEN NoLease ELSE lease)
    /\ Call(p, "delete_item")
    /\ outcome' = [outcome EXCEPT ![p] =
                      IF error[p] = "none" THEN "returned" ELSE "raised"]
    /\ Goto(p, "done")
    /\ expires_at' = [expires_at EXCEPT ![p] = 0]
    /\ UNCHANGED <<clock, deadline, now, wake, project, acquired, error, state,
                   idx, started, stateDoc, repos, remote, secrets>>
    /\ UNCHANGED unitVars

\* a release that lets the error of a failed delete_item escape
ReleaseRaising(p) ==
    /\ pc[p] = "release"
    /\ \/ /\ lease' = NoLease
          /\ Call(p, "delete_item")
          /\ outcome' = [outcome EXCEPT ![p] =
                            IF error[p] = "none" THEN "returned" ELSE "raised"]
       \/ /\ UNCHANGED lease
          /\ Call(p, "delete_item_failed")
          /\ outcome' = [outcome EXCEPT ![p] = "raised"]
    /\ Goto(p, "done")
    /\ expires_at' = [expires_at EXCEPT ![p] = 0]
    /\ UNCHANGED <<clock, deadline, now, wake, project, acquired, error, state,
                   idx, started, stateDoc, repos, remote, secrets>>
    /\ UNCHANGED unitVars

\* calls[p] records a delete_item that raised as "delete_item_failed"
\* (logger.error("Failed to release lock ...")).
Release(p) ==
    /\ pc[p] = "release"
    /\ \/ /\ lease' = NoLease
          /\ Call(p, "delete_item")
       \/ /\ UNCHANGED lease
          /\ Call(p, "delete_item_failed")
    /\ outcome' = [outcome EXCEPT ![p] =
                      IF error[p] = "none" THEN "returned" ELSE "raised"]
    /\ Goto(p, "done")
    /\ expires_at' = [expires_at EXCEPT ![p] = 0]
    /\ UNCHANGED <<clock, deadline, now, wake, project, acquired, error, state,
                   idx, started, stateDoc, repos, remote, secrets>>
    /\ UNCHANGED unitVars

\* ------------------------------------------------------------- time
Tick ==
    /\ clock < MaxClock
    /\ clock' = clock + 1
    /\ UNCHANGED <<lockVars, pc, project, calls, endVars, runVars, hostVars>>
    /\ UNCHANGED unitVars

\* ------------------------------------------------------------- specification
Step(p) ==
    \/ Invoke(p)
    \/ Attempt(p)
    \/ PutItemAccepted(p)
    \/ PutItemRejected(p)
    \/ PutItemError(p)
    \/ CheckDeadline(p)
    \/ LoadState(p)
    \/ EnsureRepo(p)
    \/ PushTemplates(p)
    \/ AddSecret(p)
    \/ UploadWorkspace(p)
    \/ SaveState(p)
    \/ WriteOutput(p)
    \/ Release(p)

Next == Tick \/ \E p \in Procs : Step(p)

Spec == Init /\ [][Next]_vars

\* ------------------------------------------------------------- serialized runs
\* One runner invokes run_pipeline again and again for one project; the other
\* runner never starts.  Earlier runs may have left a state document behind,
\* together with the repositories and files they created.
StoredDocs ==
    {d \in [Projects -> {NoName} \cup RepoNames] :
        /\ d[AcmeCorp] \in {NoName, DerivedRepoName(AcmeCorp), LegacyRepoName}
        /\ d[Bot2] \in {NoName, DerivedRepoName(Bot2)}}

InitSerial ==
    /\ NothingStarted
    /\ pc = [p \in Procs |-> IF p = "r1" THEN "idle" ELSE "off"]
    /\ \E proj \in Projects : project = [p \in Procs |-> proj]
    /\ stateDoc \in StoredDocs
    /\ repos = {stateDoc[proj] : proj \in Projects} \ {NoName}
    /\ remote = [r \in RepoNames |->
                    IF r \in repos THEN Files \cup {WorkspaceYaml} ELSE {}]
    /\ UnitsAtRest

SpecSerial == InitSerial /\ [][Next]_vars

\* ------------------------------------------------------------- two projects
\* The two runners invoke run_pipeline for different projects, once each.
\* Earlier invocations have used up all but two of the MaxInvocations.
InitTwoProjects ==
    /\ LocalsAtRest
    /\ started = MaxInvocations - 2
    /\ pc = [p \in Procs |-> "idle"]
    /\ project = [p \in Procs |-> IF p = "r1" THEN AcmeCorp ELSE Bot2]
    /\ stateDoc = EmptyDoc
    /\ repos = {}
    /\ remote = [r \in RepoNames |-> {}]
    /\ UnitsAtRest

SpecTwoProjects == InitTwoProjects /\ [][Next]_vars

\* ------------------------------------------------------------- JSON documents
\* A Python value that json can write: a scalar (kept as its JSON lexeme), a
\* list, or a dict with string keys.  Every value has the same four fields.
JScalar(tok) == [t |-> "scalar", s |-> tok, m |-> <<>>, a |-> <<>>]
JArray(elems) == [t |-> "array", s |-> "", m |-> <<>>, a |-> elems]
JObject(members) == [t |-> "object", s |-> "", m |-> members, a |-> <<>>]

\* {}
EmptyObject == JObject(<<>>)

\* JSON text is a sequence of tokens; white space and indentation carry nothing
StringTokens == {"\"a\"", "\"b\"", "\"x\""}
ScalarTokens == StringTokens \cup {"1", "true", "null"}
\* the keys that occur, in the order sort_keys=True puts them
KeyOrder == <<"\"a\"", "\"b\"">>
Keys == {KeyOrder[i] : i \in 1..Len(KeyOrder)}

\* dicts over the keys, with values drawn from vals
ObjectsOver(vals) ==
    {JObject(f) : f \in UNION {[ks -> vals] : ks \in SUBSET Keys}}

\* values nested inside the document: scalars, small dicts and small lists
InnerValues ==
    {JScalar(tok) : tok \in ScalarTokens}
        \cup ObjectsOver({JScalar("\"x\""), JScalar("1")})
        \cup {JArray(<<>>), JArray(<<JScalar("\"x\"")>>)}

\* the nested JSON-compatible mappings handed to save_state
Docs == ObjectsOver(InnerValues)

\* ---- json.dumps(state, indent=2, sort_keys=True)
RECURSIVE Dumps(_), DumpMembers(_, _), DumpElems(_)
Dumps(v) ==
    IF v.t = "scalar" THEN <<v.s>>
    ELSE IF v.t = "array" THEN <<"[">> \o DumpElems(v.a) \o <<"]">>
    ELSE <<"{">>
             \o DumpMembers(v.m, SelectSeq(KeyOrder, LAMBDA k : k \in DOMAIN v.m))
             \o <<"}">>

DumpMembers(m, ks) ==
    IF ks = <<>> THEN <<>>
    ELSE <<Head(ks), ":">> \o Dumps(m[Head(ks)])
             \o (IF Len(ks) > 1 THEN <<",">> ELSE <<>>)
             \o DumpMembers(m, Tail(ks))

DumpElems(elems) ==
    IF elems = <<>> THEN <<>>
    ELSE Dumps(Head(elems))
             \o (IF Len(elems) > 1 THEN <<",">> ELSE <<>>)
             \o DumpElems(Tail(elems))

\* ---- json.loads(text): a parse gives the value and the tokens left over
ParseError == [ok |-> FALSE, val |-> EmptyObject, rest |-> <<>>]
Parsed(v, rest) == [ok |-> TRUE, val |-> v, rest |-> rest]

RECURSIVE ParseValue(_), ParseMembers(_, _), ParseElems(_, _)
ParseValue(toks) ==
    IF toks = <<>> THEN ParseError
    ELSE IF Head(toks) \in ScalarTokens
         THEN Parsed(JScalar(Head(toks)), Tail(toks))
    ELSE IF Head(toks) = "{"
         THEN IF Len(toks) >= 2 /\ toks[2] = "}"
              THEN Parsed(EmptyObject, SubSeq(toks, 3, Len(toks)))
              ELSE ParseMembers(Tail(toks), <<>>)
    ELSE IF Head(toks) = "["
         THEN IF Len(toks) >= 2 /\ toks[2] = "]"
              THEN Parsed(JArray(<<>>), SubSeq(toks, 3, Len(toks)))
              ELSE ParseElems(Tail(toks), <<>>)
    ELSE ParseError

\* toks starts at a key; a key met twice keeps its last value
ParseMembers(toks, acc) ==
    IF Len(toks) < 3 \/ toks[1] \notin StringTokens \/ toks[2] # ":"
    THEN ParseError
    ELSE LET r == ParseValue(SubSeq(toks, 3, Len(toks)))
             members == (toks[1] :> r.val) @@ acc
         IN  IF ~r.ok \/ r.rest = <<>> THEN ParseError
             ELSE IF Head(r.rest) = "}" THEN Parsed(JObject(members), Tail(r.rest))
             ELSE IF Head(r.rest) = "," THEN ParseMembers(Tail(r.rest), members)
             ELSE ParseError

\* toks starts at an element
ParseElems(toks, acc) ==
    LET r == ParseValue(toks)
        elems == Append(acc, r.val)
    IN  IF ~r.ok \/ r.rest = <<>> THEN ParseError
        ELSE IF Head(r.rest) = "]" THEN Parsed(JArray(elems), Tail(r.rest))
        ELSE IF Head(r.rest) = "," THEN ParseElems(Tail(r.rest), elems)
        ELSE ParseError

\* json.loads raises unless the whole text is one value
Loads(text) ==
    LET r == ParseValue(text)
    IN  IF r.ok /\ r.rest = <<>> THEN r ELSE ParseError

\* ------------------------------------------------------------- state backends
Backends == {"s3", "local"}

NoBlob == [exists |-> FALSE, body |-> <<>>]
Stored(text) == [exists |-> TRUE, body |-> text]

NothingSaved == [valid |-> FALSE, doc |-> EmptyObject]
Saved(doc) == [valid |-> TRUE, doc |-> doc]

NotLoaded == [status |-> "none", err |-> "", doc |-> EmptyObject]
Returned(doc) == [status |-> "returned", err |-> "", doc |-> doc]
Raised(err) == [status |-> "raised", err |-> err, doc |-> EmptyObject]

\* text that something other than save_state may leave in the store: an empty
\* blob, text that is not JSON, a document cut short, a document with a tail,
\* and JSON that is not a mapping
ForeignTexts ==
    {<<>>, <<"oops">>, <<"{", "\"a\"", ":">>, <<"{", "}", "}">>,
     <<"[", "]">>, <<"null">>}

InitStore ==
    /\ PipelineAtRest
    /\ SyncAtRest
    /\ FunctionsAtRest
    /\ backend \in Backends
    /\ blob = NoBlob
    /\ saved = NothingSaved
    /\ loaded = NotLoaded
    /\ sbOp = "none"

\* S3StateBackend.save_state: put_object replaces the object, or raises
S3SaveState(doc) ==
    /\ backend = "s3"
    /\ \/ /\ blob' = Stored(Dumps(doc))
          /\ saved' = Saved(doc)
          /\ sbOp' = "save"
       \/ /\ sbOp' = "save_raised"
          /\ UNCHANGED <<blob, saved>>
    /\ loaded' = NotLoaded
    /\ UNCHANGED <<backend, pipeVars, syncVars, fnVars>>

\* a save that writes over the old text without truncating the file
LocalSaveStateInPlace(doc) ==
    /\ backend = "local"
    /\ blob' = Stored(Dumps(doc)
                        \o SubSeq(blob.body, Len(Dumps(doc)) + 1, Len(blob.body)))
    /\ saved' = Saved(doc)
    /\ loaded' = NotLoaded
    /\ sbOp' = "save"
    /\ UNCHANGED <<backend, pipeVars, syncVars, fnVars>>

\* LocalStateBackend.save_state: open(path, "w") truncates, json.dump writes
LocalSaveState(doc) ==
    /\ backend = "local"
    /\ blob' = Stored(Dumps(doc))
    /\ saved' = Saved(doc)
    /\ loaded' = NotLoaded
    /\ sbOp' = "save"
    /\ UNCHANGED <<backend, pipeVars, syncVars, fnVars>>

\* S3StateBackend.load_state
S3LoadState ==
    /\ backend = "s3"
    /\ \/ /\ ~blob.exists               \* ClientError NoSuchKey / NoSuchBucket
          /\ loaded' = Returned(EmptyObject)
       \/ loaded' = Raised("ClientError")    \* any other ClientError
       \/ /\ blob.exists
          /\ LET body == IF blob.body = <<>> THEN <<"{", "}">> ELSE blob.body
                 r == Loads(body)
             IN  loaded' = IF ~r.ok THEN Raised("JSONDecodeError")
                           ELSE IF r.val.t # "object" THEN Returned(EmptyObject)
                           ELSE Returned(r.val)
    /\ sbOp' = "load"
    /\ UNCHANGED <<backend, blob, saved, pipeVars, syncVars, fnVars>>

\* LocalStateBackend.load_state
LocalLoadState ==
    /\ backend = "local"
    /\ loaded' = IF ~blob.exists THEN Returned(EmptyObject)
                 ELSE IF ~Loads(blob.body).ok THEN Returned(EmptyObject)
                 ELSE Returned(Loads(blob.body).val)
    /\ sbOp' = "load"
    /\ UNCHANGED <<backend, blob, saved, pipeVars, syncVars, fnVars>>

\* something other than save_state writes the object / the file
Overwrite(text) ==
    /\ blob' = Stored(text)
    /\ saved' = NothingSaved
    /\ loaded' = NotLoaded
    /\ sbOp' = "overwrite"
    /\ UNCHANGED <<backend, pipeVars, syncVars, fnVars>>

\* the object / the file is deleted
Remove ==
    /\ blob.exists
    /\ blob' = NoBlob
    /\ saved' = NothingSaved
    /\ loaded' = NotLoaded
    /\ sbOp' = "remove"
    /\ UNCHANGED <<backend, pipeVars, syncVars, fnVars>>

NextStore ==
    \/ \E doc \in Docs : S3SaveState(doc)
    \/ \E doc \in Docs : LocalSaveState(doc)
    \/ S3LoadState
    \/ LocalLoadState
    \/ \E text \in ForeignTexts : Overwrite(text)
    \/ Remove

SpecStore == InitStore /\ [][NextStore]_vars

\* ------------------------------------------------------------- template sync
MaxSyncRuns == 2     \* syncs of the same folder, one after the other
MaxAttempts == 3     \* upload_file: for attempt in range(3)

\* EXCLUDE_PATH_FRAGMENTS
ExcludePathFragments ==
    {"__pycache__", ".pytest_cache", ".git", ".DS_Store",
     ".github/workflows/generator.yml"}

\* A path is the sequence of its segments; os.walk gives the names one by one,
\* and a name holds no "/".
GeneratorYml == <<".github", "workflows", "generator.yml">>
ExampleTree == {<<"a.txt">>, <<"sub", "b.yaml">>, <<".git", "x">>,
                <<"__pycache__", "y.pyc">>}
FullTree == ExampleTree \cup {<<".gitignore">>, GeneratorYml,
                              <<"sub", ".pytest_cache", "z">>, <<".DS_Store">>}
Trees == {ExampleTree, FullTree}

IsUnder(f, d) == Len(f) > Len(d) /\ SubSeq(f, 1, Len(d)) = d
\* os.walk: the subdirectories and the files of directory d
SubDirs(d) == {SubSeq(f, 1, Len(d) + 1) : f \in {g \in tree : IsUnder(g, d) /\ Len(g) > Len(d) + 1}}
FilesIn(d) == {f \in tree : IsUnder(f, d) /\ Len(f) = Len(d) + 1}

\* rel_dir = os.path.join(os.path.relpath(root, folder), d), split on "/":
\* relpath gives "." for the folder itself
RelDirParts(d) == IF Len(d) = 1 THEN <<".">> \o d ELSE d

\* a match of any fragment that occurs inside a segment
\* (the names of the trees that hold a fragment without being one)
HoldsFragment == {".github", ".gitignore"}
AnyPartHoldsExcluded(parts) ==
    \E i \in 1..Len(parts) :
        parts[i] \in ExcludePathFragments \/ parts[i] \in HoldsFragment

\* any(part in EXCLUDE_PATH_FRAGMENTS for part in parts)
AnyPartExcluded(parts) == \E i \in 1..Len(parts) : parts[i] \in ExcludePathFragments

\* sha of a file on the host: none, the sha of the local content of the path,
\* or the sha of other content
NoSha == <<>>
ShaOf(f) == <<"sha">> \o f
OtherSha(f) == <<"other">> \o f

InitSync ==
    /\ PipelineAtRest
    /\ StoreAtRest
    /\ FunctionsAtRest
    /\ tree \in Trees
    /\ \E held \in SUBSET {<<"a.txt">>} :
           hostFile = [f \in tree |-> IF f \in held THEN OtherSha(f) ELSE NoSha]
    /\ syPc = "idle"
    /\ syRun = 0
    /\ runsDone = 0
    /\ dirs = {}
    /\ files = {}
    /\ discovered = {}
    /\ cur = <<>>
    /\ sha = NoSha
    /\ attempt = 0
    /\ puts = {}
    /\ syError = "none"

\* upload_template_folder(repo_name, folder) is called: os.walk starts at folder
StartSync ==
    /\ syPc \in {"idle", "done", "raised"}
    /\ syRun < MaxSyncRuns
    /\ syRun' = syRun + 1
    /\ syPc' = "walk"
    /\ dirs' = {<<>>}
    /\ files' = {}
    /\ discovered' = {}
    /\ puts' = {}
    /\ syError' = "none"
    /\ UNCHANGED <<tree, hostFile, runsDone, cur, sha, attempt, pipeVars, storeVars, fnVars>>

\* os.walk yields a directory: the subdirectories with an excluded part are
\* pruned, the others will be listed in some order
WalkDir ==
    /\ syPc = "walk" /\ files = {}
    /\ \E d \in dirs :
           /\ dirs' = (dirs \ {d}) \cup {c \in SubDirs(d) : ~AnyPartExcluded(RelDirParts(c))}
           /\ files' = FilesIn(d)
    /\ UNCHANGED <<tree, hostFile, syPc, syRun, runsDone, discovered, cur, sha,
                   attempt, puts, syError, pipeVars, storeVars, fnVars>>

\* for filename in files: skip it, or add it to discovered and call upload_file
NextFile ==
    /\ syPc = "walk"
    /\ \E f \in files :
           /\ files' = files \ {f}
           /\ IF AnyPartExcluded(f)
              THEN UNCHANGED <<syPc, discovered, cur>>
              ELSE /\ discovered' = discovered \cup {f}
                   /\ cur' = f
                   /\ syPc' = "lookup"
    /\ UNCHANGED <<tree, hostFile, syRun, runsDone, dirs, sha, attempt, puts,
                   syError, pipeVars, storeVars, fnVars>>

\* ---- upload_file.  Nothing else writes to the repository during a sync.
\* resp = requests.get(...): 200 with the sha of the file, or 404
LookupAnswered ==
    /\ syPc = "lookup"
    /\ sha' = hostFile[cur]
    /\ syPc' = "put"
    /\ UNCHANGED <<tree, hostFile, syRun, runsDone, dirs, files, discovered, cur,
                   attempt, puts, syError, pipeVars, storeVars, fnVars>>

\* resp = requests.get(...): any other status (403, 5xx, ...); no sha is taken
LookupFailed ==
    /\ syPc = "lookup"
    /\ sha' = NoSha
    /\ syPc' = "put"
    /\ UNCHANGED <<tree, hostFile, syRun, runsDone, dirs, files, discovered, cur,
                   attempt, puts, syError, pipeVars, storeVars, fnVars>>

\* the PUT request: payload["sha"] is set if sha is not empty
PutRequest == [path |-> cur, sha |-> sha, found |-> hostFile[cur]]

\* upload_file returns; time.sleep(0.15); the walk goes on
ReturnToWalk ==
    /\ syPc' = "walk"
    /\ cur' = <<>>
    /\ sha' = NoSha
    /\ attempt' = 0

\* an exception leaves upload_template_folder
RaiseFromSync(why) ==
    /\ syPc' = "raised"
    /\ syError' = why
    /\ cur' = <<>>
    /\ sha' = NoSha
    /\ attempt' = 0
    /\ dirs' = {}
    /\ files' = {}

\* PUT answered 200 / 201: the host creates the file (no sha sent, no file
\* there) or updates it (the sha sent is the sha of the file there)
PutAccepted ==
    /\ syPc = "put"
    /\ sha = hostFile[cur]
    /\ puts' = puts \cup {PutRequest}
    /\ hostFile' = [hostFile EXCEPT ![cur] = ShaOf(cur)]
    /\ ReturnToWalk
    /\ UNCHANGED <<tree, syRun, runsDone, dirs, files, discovered, syError,
                   pipeVars, storeVars, fnVars>>

\* PUT answered 409 / 422: a file is there and the request does not carry its
\* sha; _request raises RuntimeError
PutRejected ==
    /\ syPc = "put"
    /\ hostFile[cur] # NoSha /\ sha # hostFile[cur]
    /\ puts' = puts \cup {PutRequest}
    /\ RaiseFromSync("file_exists")
    /\ UNCHANGED <<tree, hostFile, syRun, runsDone, discovered, pipeVars, storeVars, fnVars>>

\* PUT answered with another status >= 400: _request raises RuntimeError
PutFailed ==
    /\ syPc = "put"
    /\ puts' = puts \cup {PutRequest}
    /\ RaiseFromSync("put_failed")
    /\ UNCHANGED <<tree, hostFile, syRun, runsDone, discovered, pipeVars, storeVars, fnVars>>

\* PUT answered below 400 but neither 200 nor 201: sleep and try again; after
\* the last attempt return resp.json()
PutOtherStatus ==
    /\ syPc = "put"
    /\ puts' = puts \cup {PutRequest}
    /\ IF attempt < MaxAttempts - 1
       THEN /\ attempt' = attempt + 1
            /\ UNCHANGED <<syPc, cur, sha>>
       ELSE ReturnToWalk
    /\ UNCHANGED <<tree, hostFile, syRun, runsDone, dirs, files, discovered,
                   syError, pipeVars, storeVars, fnVars>>

\* os.walk is exhausted: upload_template_folder returns
FinishSync ==
    /\ syPc = "walk" /\ dirs = {} /\ files = {}
    /\ syPc' = "done"
    /\ runsDone' = runsDone + 1
    /\ UNCHANGED <<tree, hostFile, syRun, dirs, files, discovered, cur, sha,
                   attempt, puts, syError, pipeVars, storeVars, fnVars>>

NextSync ==
    \/ StartSync
    \/ WalkDir
    \/ NextFile
    \/ LookupAnswered
    \/ LookupFailed
    \/ PutAccepted
    \/ PutRejected
    \/ PutFailed
    \/ PutOtherStatus
    \/ FinishSync

SpecSync == InitSync /\ [][NextSync]_vars

\* ------------------------------------------------------------- ensure_repo
MaxRepoCalls == 2    \* calls of ensure_repo, one after the other

NoRepo == <<>>
\* values of repo_name, private and description
ErNames == {"Infoservices-acme-corp-llm", "acme-llm"}
ErDescriptions == {"", "LLM project for Acme Corp"}
EnsureRepoArgs == [repo_name : ErNames, private : BOOLEAN, description : ErDescriptions]

\* the repository the host holds after a create with this payload
\* (payload = {"name", "private", "description", "auto_init": False})
Payload(args) ==
    [name |-> args.repo_name, private |-> args.private, description |-> args.description]

\* if resp.status_code == 200 / if resp.status_code != 404
Is200(status) == status = 200
\* a test that sends every answer but 200 on to the create
IsNot200(status) == status # 200
Is404(status) == status = 404

\* what the host answers to GET /repos/{owner}/{repo_name}: 200 for a
\* repository it holds, 404 for one it does not, or a failure
GetRepoStatuses(name) ==
    (IF hostRepos[name] # NoRepo THEN {200} ELSE {404}) \cup {403, 500}

\* endpoint = f"/orgs/{self.owner}/repos" if self.is_org() else "/user/repos"
Endpoint == IF ownerType = "Organization" THEN "/orgs/owner/repos" ELSE "/user/repos"

\* a request, its json payload (NoRepo for none) and the status of the answer
Request(method, url, json, status) ==
    [method |-> method, url |-> url, json |-> json, status |-> status]

InitRepo ==
    /\ PipelineAtRest
    /\ StoreAtRest
    /\ SyncAtRest
    /\ SlugAtRest
    /\ ReadAtRest
    /\ DocAtRest
    /\ \E held \in SUBSET ErNames :
           hostRepos = [n \in ErNames |->
                           IF n \in held
                           THEN [name |-> n, private |-> TRUE, description |-> "kept"]
                           ELSE NoRepo]
    /\ ownerType \in {"Organization", "User"}
    /\ erPc = "idle"
    /\ erArgs = <<>>
    /\ erRet = NoRepo
    /\ erLog = <<>>
    /\ erCalls = 0
    /\ created = [n \in ErNames |-> 0]

repoRest == <<pipeVars, storeVars, syncVars, slugVars, readVars, docVars>>

\* ensure_repo(repo_name, private, description) is called
CallEnsureRepo(args) ==
    /\ erPc \in {"idle", "returned", "raised"}
    /\ erCalls < MaxRepoCalls
    /\ erCalls' = erCalls + 1
    /\ erArgs' = args
    /\ erRet' = NoRepo
    /\ erLog' = <<>>
    /\ erPc' = "get"
    /\ UNCHANGED <<hostRepos, ownerType, created, repoRest>>

\* resp = requests.get(.../repos/{owner}/{repo_name}); 200: return resp.json();
\* 404: go on to create; any other status: raise RuntimeError
GetRepo ==
    /\ erPc = "get"
    /\ \E status \in GetRepoStatuses(erArgs.repo_name) :
           /\ erLog' = Append(erLog, Request("GET", "/repos", NoRepo, status))
           /\ IF Is200(status)
              THEN erPc' = "returned" /\ erRet' = hostRepos[erArgs.repo_name]
              ELSE IF Is404(status)
                   THEN erPc' = "is_org" /\ UNCHANGED erRet
                   ELSE erPc' = "raised" /\ UNCHANGED erRet
    /\ UNCHANGED <<hostRepos, ownerType, erArgs, erCalls, created, repoRest>>

\* self.is_org(): _request("GET", /users/{owner}) answered below 400
IsOrg ==
    /\ erPc = "is_org"
    /\ erLog' = Append(erLog, Request("GET", "/users", NoRepo, 200))
    /\ erPc' = "post"
    /\ UNCHANGED <<hostRepos, ownerType, erArgs, erRet, erCalls, created, repoRest>>

\* self.is_org(): the request is answered 403 or >= 400 and _request raises
IsOrgFailed ==
    /\ erPc = "is_org"
    /\ \E status \in {403, 500} :
           erLog' = Append(erLog, Request("GET", "/users", NoRepo, status))
    /\ erPc' = "raised"
    /\ UNCHANGED <<hostRepos, ownerType, erArgs, erRet, erCalls, created, repoRest>>

\* _request("POST", endpoint, json=payload) answered 201: the host creates
\* the repository; return resp.json()
PostRepo ==
    /\ erPc = "post"
    /\ hostRepos[erArgs.repo_name] = NoRepo
    /\ erLog' = Append(erLog, Request("POST", Endpoint, Payload(erArgs), 201))
    /\ hostRepos' = [hostRepos EXCEPT ![erArgs.repo_name] = Payload(erArgs)]
    /\ created' = [created EXCEPT ![erArgs.repo_name] = @ + 1]
    /\ erRet' = Payload(erArgs)
    /\ erPc' = "returned"
    /\ UNCHANGED <<ownerType, erArgs, erCalls, repoRest>>

\* the POST is answered >= 400 and _request raises
PostRepoFailed ==
    /\ erPc = "post"
    /\ \E status \in {403, 500} :
           erLog' = Append(erLog, Request("POST", Endpoint, Payload(erArgs), status))
    /\ erPc' = "raised"
    /\ UNCHANGED <<hostRepos, ownerType, erArgs, erRet, erCalls, created, repoRest>>

NextRepo ==
    \/ \E args \in EnsureRepoArgs : CallEnsureRepo(args)
    \/ GetRepo
    \/ IsOrg
    \/ IsOrgFailed
    \/ PostRepo
    \/ PostRepoFailed

SpecRepo == InitRepo /\ [][NextRepo]_vars

\* ------------------------------------------------------------- _slugify
MaxNameLen == 4      \* length of the names given to _slugify

\* characters of the names: upper and lower case, a digit, white space, the
\* dash and other punctuation
NameChars == {"M", "y", "2", " ", "-", "_", "!"}
MyCoolProject == <<"M", "y", " ", "C", "o", "o", "l", " ",
                   "P", "r", "o", "j", "e", "c", "t", "!", "!">>
SlugifyNames ==
    UNION {[1..n -> NameChars] : n \in 0..MaxNameLen} \cup {MyCoolProject}

\* nothing returned yet
NoSlug == <<>>

InitSlug ==
    /\ PipelineAtRest
    /\ StoreAtRest
    /\ SyncAtRest
    /\ RepoAtRest
    /\ ReadAtRest
    /\ DocAtRest
    /\ rawName \in SlugifyNames
    /\ slugged = NoSlug

\* project_slug = _slugify(project_name)
CallSlugify ==
    /\ slugged = NoSlug
    /\ slugged' = Slugify(rawName)
    /\ UNCHANGED <<rawName, pipeVars, storeVars, syncVars, repoVars, readVars, docVars>>

\* _slugify applied to the slug it returned
SlugifyAgain ==
    /\ slugged # NoSlug /\ slugged # rawName
    /\ rawName' = slugged
    /\ slugged' = Slugify(slugged)
    /\ UNCHANGED <<pipeVars, storeVars, syncVars, repoVars, readVars, docVars>>

NextSlug == CallSlugify \/ SlugifyAgain

SpecSlug == InitSlug /\ [][NextSlug]_vars

\* ------------------------------------------------------------- the run's state document
MaxDocRuns == 2      \* runs of run_pipeline, one after the other

\* a Python str held in the document
JString(str) == [t |-> "string", s |-> str, m |-> <<>>, a |-> <<>>]

\* dict.get(key, default), dict.setdefault(key, default), dict.update(other)
\* and d[key] = value, on the dicts of the document (keys are Python strs)
Get(obj, key, default) == IF key \in DOMAIN obj.m THEN obj.m[key] ELSE default
SetDefault(obj, key, default) ==
    IF key \in DOMAIN obj.m THEN obj ELSE JObject((key :> default) @@ obj.m)
\* an update that starts from an empty dict
UpdateFromEmpty(obj, other) == other
Update(obj, other) == JObject(other.m @@ obj.m)
SetItem(obj, key, value) == JObject((key :> value) @@ obj.m)

\* repo_info of the repository: "full_name" and "html_url"
FullNameOf ==
    ("Infoservices-acme-corp-llm" :> "owner/Infoservices-acme-corp-llm") @@
    ("Infoservices-bot-2-llm" :> "owner/Infoservices-bot-2-llm") @@
    ("acme-llm" :> "owner/acme-llm")
HtmlUrlOf ==
    ("Infoservices-acme-corp-llm" :> "https://github.com/owner/Infoservices-acme-corp-llm") @@
    ("Infoservices-bot-2-llm" :> "https://github.com/owner/Infoservices-bot-2-llm") @@
    ("acme-llm" :> "https://github.com/owner/acme-llm")

\* the keys project_state.update(...) sets
FactKeys == {"project_name", "repo_name", "repo_full_name", "repo_html_url",
             "observability_enabled"}

\* repo_name = project_state.get("repo_name") or f"Infoservices-{project_slug}-llm"
\* (what is stored under "repo_name" is a str)
RepoNameFrom(project_state, proj) ==
    IF "repo_name" \in DOMAIN project_state.m /\ project_state.m["repo_name"].s # ""
    THEN project_state.m["repo_name"].s
    ELSE DerivedRepoName(proj)

\* the dict handed to project_state.update
Facts(proj, repo_name, enabled) ==
    JObject([k \in FactKeys |->
                CASE k = "project_name" -> JString(proj)
                  [] k = "repo_name" -> JString(repo_name)
                  [] k = "repo_full_name" -> JString(FullNameOf[repo_name])
                  [] k = "repo_html_url" -> JString(HtmlUrlOf[repo_name])
                  [] OTHER -> JScalar(IF enabled THEN "true" ELSE "false")])

\* the entries earlier runs, or an operator, may have left for a project
EntriesOf(proj) ==
    {JObject(name @@ team @@ obs) :
        name \in {<<>>} \cup
                 {"repo_name" :> JString(n) :
                      n \in {DerivedRepoName(proj)} \cup
                            (IF proj = AcmeCorp THEN {LegacyRepoName} ELSE {})},
        team \in {<<>>, "owner_team" :> JString("ml")},
        obs \in {<<>>, "observability_enabled" :> JScalar("false")}}

\* the documents the backend may hold: with or without "projects", with or
\* without a key of their own beside it
StateDocs ==
    {JObject(projects @@ version) :
        projects \in {<<>>} \cup
            {"projects" :> JObject(entries) :
                entries \in UNION {{f \in [ps -> UNION {EntriesOf(q) : q \in ps}] :
                                       \A q \in ps : f[q] \in EntriesOf(q)} :
                                   ps \in SUBSET Projects}},
        version \in {<<>>, "version" :> JScalar("1")}}

InitDoc ==
    /\ PipelineAtRest
    /\ StoreAtRest
    /\ SyncAtRest
    /\ RepoAtRest
    /\ SlugAtRest
    /\ ReadAtRest
    /\ document \in StateDocs
    /\ loadedDoc = EmptyObject
    /\ runState = EmptyObject
    /\ runProject = NoName
    /\ runPc = "idle"
    /\ runCount = 0

docRest == <<pipeVars, storeVars, syncVars, repoVars, slugVars, readVars>>

\* run_pipeline is started for project_name = proj, after any earlier run has ended
StartRun(proj) ==
    /\ runPc \in {"idle", "returned", "raised"}
    /\ runCount < MaxDocRuns
    /\ runCount' = runCount + 1
    /\ runProject' = proj
    /\ runPc' = "load_state"
    /\ loadedDoc' = EmptyObject
    /\ runState' = EmptyObject
    /\ UNCHANGED <<document, docRest>>

\* state = state_backend.load_state() or {}; state.setdefault("projects", {})
RunLoadState ==
    /\ runPc = "load_state"
    /\ loadedDoc' = document
    /\ runState' = SetDefault(document, "projects", EmptyObject)
    /\ runPc' = "save_state"
    /\ UNCHANGED <<document, runProject, runCount, docRest>>

\* ensure_repo, an upload or anything else before the save raises
RunRaises ==
    /\ runPc = "save_state"
    /\ runPc' = "raised"
    /\ UNCHANGED <<document, loadedDoc, runState, runProject, runCount, docRest>>

\* project_state = state["projects"].get(project_name, {}); ...;
\* project_state.update({...}); state["projects"][project_name] = project_state;
\* state_backend.save_state(state)
RunSaveState ==
    /\ runPc = "save_state"
    /\ \E enabled \in BOOLEAN :
           LET projects == runState.m["projects"]
               project_state == Get(projects, runProject, EmptyObject)
               repo_name == RepoNameFrom(project_state, runProject)
               updated == Update(project_state, Facts(runProject, repo_name, enabled))
           IN  runState' = SetItem(runState, "projects",
                                   SetItem(projects, runProject, updated))
    /\ document' = runState'
    /\ runPc' = "returned"
    /\ UNCHANGED <<loadedDoc, runProject, runCount, docRest>>

NextDoc ==
    \/ \E proj \in Projects : StartRun(proj)
    \/ RunLoadState
    \/ RunRaises
    \/ RunSaveState

SpecDoc == InitDoc /\ [][NextDoc]_vars

\* ------------------------------------------------------------- text or binary
\* is_text_file: f.read(2048); the characters the decoder is given before
\* is_text_file returns (2048, and what the reader has read ahead)
PrefixChars == 2
MaxFileBytes == 4    \* size of a template file

\* A byte of a file, by its part in UTF-8: an ASCII byte, the lead byte of a
\* two-byte character, a continuation byte, a byte no UTF-8 text holds
ByteKinds == {"ascii", "lead", "cont", "invalid"}
FileContents == UNION {[1..n -> ByteKinds] : n \in 0..MaxFileBytes}

\* the utf-8 decoder of open(path, "r", encoding="utf-8"): whether read(size)
\* returns, rather than raising UnicodeDecodeError, on a file of these bytes;
\* it decodes until it has size characters or the file ends
RECURSIVE Decodes(_, _)
Decodes(bytes, size) ==
    IF size = 0 \/ bytes = <<>> THEN TRUE
    ELSE IF Head(bytes) = "ascii" THEN Decodes(Tail(bytes), size - 1)
    ELSE IF Head(bytes) = "lead"
         THEN /\ Len(bytes) >= 2 /\ bytes[2] = "cont"
              /\ Decodes(SubSeq(bytes, 3, Len(bytes)), size - 1)
    ELSE FALSE

InitRead ==
    /\ PipelineAtRest
    /\ StoreAtRest
    /\ SyncAtRest
    /\ RepoAtRest
    /\ SlugAtRest
    /\ DocAtRest
    /\ content \in FileContents
    /\ rdPc = "is_text_file"
    /\ isText = "unset"
    /\ readAs = "none"

readRest == <<pipeVars, storeVars, syncVars, repoVars, slugVars, docVars>>

\* is_text_file(full_path): True if f.read(2048) returns, False if it raises
IsTextFile ==
    /\ rdPc = "is_text_file"
    /\ isText' = IF Decodes(content, PrefixChars) THEN "true" ELSE "false"
    /\ rdPc' = "read"
    /\ UNCHANGED <<content, readAs, readRest>>

\* with open(full_path, "r", encoding="utf-8") as fh: content = fh.read()
\* a UnicodeDecodeError leaves upload_template_folder
ReadText ==
    /\ rdPc = "read" /\ isText = "true"
    /\ IF Decodes(content, Len(content))
       THEN rdPc' = "upload_file" /\ readAs' = "text"
       ELSE rdPc' = "raised" /\ UNCHANGED readAs
    /\ UNCHANGED <<content, isText, readRest>>

\* with open(full_path, "rb") as fh: content = fh.read()
ReadBinary ==
    /\ rdPc = "read" /\ isText = "false"
    /\ rdPc' = "upload_file"
    /\ readAs' = "binary"
    /\ UNCHANGED <<content, isText, readRest>>

NextRead == IsTextFile \/ ReadText \/ ReadBinary

SpecRead == InitRead /\ [][NextRead]_vars

\* ------------------------------------------------------------- properties
Names(p) == {calls[p][i][1] : i \in 1..Len(calls[p])}

Count(p, name) == Cardinality({i \in 1..Len(calls[p]) : calls[p][i][1] = name})

NameOfLast(seq) == seq[Len(seq)][1]

LastCall(p) == NameOfLast(calls[p])

\* calls of release() made by the invocation
Releases(p) == Count(p, "delete_item") + Count(p, "delete_item_failed")

\* p takes a step out of the statement at label
Leaves(p, label) == pc[p] = label /\ pc'[p] # label

\* the invocations inside their critical section
Holders == {p \in Procs : InCritical(p)}

\* no invocation is inside its critical section after the lease it wrote expired
NoOverrun == \A p \in Holders : expires_at[p] >= clock

C2_ReleasedExactlyOnce ==
    \A p \in Procs :
        acquired[p] = "true" =>
            /\ Releases(p) = (IF pc[p] = "done" THEN 1 ELSE 0)
            /\ pc[p] = "done" =>
                   outcome[p] = (IF error[p] = "none" THEN "returned" ELSE "raised")

\* C2 witness: a run whose save_state raised has ended with one release.
C2_Witness ==
    \E p \in Procs :
        /\ pc[p] = "done" /\ acquired[p] = "true"
        /\ error[p] = "save_state" /\ outcome[p] = "raised"
        /\ Releases(p) = 1

\* C3: a release() whose delete succeeds leaves no lease record, whoever wrote
\* the record and whoever is inside a critical section; and an acquire attempt
\* that finds no record succeeds at once, even while another invocation is
\* inside its critical section.
C3_FencingGap ==
    [][\A a \in Procs :
          /\ (Leaves(a, "release") /\ NameOfLast(calls'[a]) = "delete_item")
                 => lease' = NoLease
          /\ (Leaves(a, "put_item") /\ lease = NoLease /\ error'[a] = "none")
                 => (acquired'[a] = "true" /\ pc'[a] = "load_state")]_vars

\* C3 witness: two invocations are inside their critical sections, both on a
\* lease that has not expired, and the later one got in on its first attempt.
\* With three invocations started this is the sequence A acquires, A's lease
\* expires, B steals, A releases, the third caller acquires.
C3_Witness ==
    \E b, c \in Procs :
        /\ b # c /\ started = 3
        /\ InCritical(b) /\ expires_at[b] >= clock
        /\ InCritical(c) /\ expires_at[c] >= clock
        /\ calls[c] = << <<"put_item", 0>> >>
        /\ lease = expires_at[c]

\* C4: an attempt that finds no lease record succeeds (given no backend
\* error): acquire returns True and the record holds now + ttl_seconds, now
\* being the time read by that attempt; if it is the first attempt, nothing
\* was slept.
C4_AcquireWhenAbsent ==
    [][\A p \in Procs :
          /\ (Leaves(p, "attempt") /\ pc'[p] = "put_item") => now'[p] = clock
          /\ (Leaves(p, "put_item") /\ lease = NoLease /\ error'[p] = "none")
                 => /\ acquired'[p] = "true"
                    /\ lease' = now[p] + TtlSeconds
                    /\ calls[p] = <<>> => calls'[p] = << <<"put_item", 0>> >>]_vars

\* C4 witness: the first invocation ever acquired on its first attempt.
C4_Witness ==
    \E p \in Procs :
        /\ started = 1 /\ acquired[p] = "true"
        /\ calls[p] = << <<"put_item", 0>> >>
        /\ lease = expires_at[p]

\* C5: an acquire attempt at time now succeeds if and only if no lease exists
\* or the lease's expires_at is strictly less than now; a lease with
\* expires_at = now is not taken; a successful attempt stores now +
\* ttl_seconds, a rejected one leaves the record as it is.
C5_StealOnExpiry ==
    [][\A p \in Procs :
          (Leaves(p, "put_item") /\ error'[p] = "none")
              => /\ (acquired'[p] = "true") <=> (lease = NoLease \/ lease < now[p])
                 /\ lease = now[p] => (acquired'[p] # "true" /\ lease' = lease)
                 /\ acquired'[p] = "true" => lease' = now[p] + TtlSeconds
                 /\ acquired'[p] # "true" => lease' = lease]_vars

\* C5 witness: of the only two invocations started, both are inside their
\* critical sections and the record is the later one's, written at a time
\* after the earlier one's expires_at: a steal.
C5_Witness ==
    \E p, q \in Procs :
        /\ p # q /\ started = 2
        /\ InCritical(p) /\ InCritical(q)
        /\ lease = expires_at[q]
        /\ expires_at[p] < expires_at[q] - TtlSeconds

C7_BackendErrorPropagates ==
    /\ [][\A p \in Procs :
            /\ (Leaves(p, "put_item") /\ pc'[p] = "check_deadline")
                   => (lease # NoLease /\ lease >= now[p])
            /\ (Leaves(p, "put_item") /\ pc'[p] = "done")
                   => /\ error'[p] = "acquire" /\ outcome'[p] = "raised"
                      /\ acquired'[p] = "unset"
                      /\ calls'[p] = Append(calls[p], <<"put_item", 0>>)
                      /\ UNCHANGED <<lease, stateDoc, repos, remote, secrets>>
            /\ Leaves(p, "put_item")
                   => pc'[p] \in {"load_state", "check_deadline", "done"}]_vars
    /\ [](\A p \in Procs :
            error[p] = "acquire"
                => /\ pc[p] = "done" /\ outcome[p] = "raised"
                   /\ acquired[p] = "unset"
                   /\ Names(p) \subseteq {"put_item", "sleep"}
                   /\ LastCall(p) = "put_item")

\* C7 witness: after one rejected attempt and a sleep, the second put_item
\* raised a backend error and the run ended with it.
C7_Witness ==
    \E p \in Procs :
        /\ error[p] = "acquire" /\ pc[p] = "done"
        /\ Count(p, "sleep") = 1 /\ Count(p, "put_item") = 2

\* C8: release() always completes and never raises: whether the record is
\* there, already gone (deleted by an earlier release) or the delete fails,
\* the run ends as it would have (returned without a pending exception), and
\* the call writes no record: afterwards the record is absent or untouched.
C8_ReleaseNeverRaises ==
    /\ [][\A p \in Procs :
            Leaves(p, "release")
                => /\ pc'[p] = "done"
                   /\ error'[p] = error[p]
                   /\ outcome'[p] = (IF error[p] = "none" THEN "returned" ELSE "raised")
                   /\ lease' \in {NoLease, lease}]_vars
    /\ [](\A p \in Procs : pc[p] = "release" => ENABLED Release(p))

\* C8 witness: a run whose delete_item failed has returned its outputs.
C8_Witness ==
    \E p \in Procs :
        /\ pc[p] = "done" /\ outcome[p] = "returned"
        /\ LastCall(p) = "delete_item_failed"

\* C9: if acquire() returned False, run_pipeline has ended with an error and
\* has called neither load_state nor save_state, neither ensure_repo nor an
\* upload nor add_secret, and not release().
C9_AbortOnLockTimeout ==
    \A p \in Procs :
        acquired[p] = "false"
            => /\ pc[p] = "done" /\ outcome[p] = "raised"
               /\ error[p] = "lock_timeout"
               /\ Names(p) \subseteq {"put_item", "sleep"}

\* C9 witness: one run was refused the lock while the holder's record is intact.
C9_Witness ==
    \E p, q \in Procs :
        /\ acquired[p] = "false" /\ pc[p] = "done"
        /\ InCritical(q) /\ lease = expires_at[q]

\* the template files whose upload by p's push_templates succeeded, when
\* push_templates raised: every upload call but the last
UploadedBeforeFailure(p) ==
    LET ups == {i \in 1..Len(calls[p]) : calls[p][i][1] = "upload"}
    IN  {calls[p][i][2] : i \in {j \in ups : \E k \in ups : k > j}}

\* C10: if ensure_repo or push_templates raised, the run goes straight to the
\* release of the lock and ends with the error: it calls neither add_secret
\* nor the workspace.yaml upload nor save_state, the files it had uploaded
\* stay on the host, release() is called once, and from the failure on the
\* run changes nothing on the host or in the stored state document.
C10_AbortOnSyncFailure ==
    /\ [](\A p \in Procs :
            error[p] \in {"ensure_repo", "push_templates"}
                => /\ pc[p] \in {"release", "done"}
                   /\ Names(p) \cap {"add_secret", "add_secret_failed", "save_state"} = {}
                   /\ \A i \in 1..Len(calls[p]) : calls[p][i] # <<"upload", WorkspaceYaml>>
                   /\ Releases(p) = (IF pc[p] = "done" THEN 1 ELSE 0)
                   /\ pc[p] = "done" => outcome[p] = "raised"
                   /\ error[p] = "ensure_repo" => Count(p, "upload") = 0
                   /\ error[p] = "push_templates"
                          => UploadedBeforeFailure(p) \subseteq remote[Repo(p)])
    /\ [][\A p \in Procs :
            (error'[p] \in {"ensure_repo", "push_templates"} /\ pc'[p] # pc[p])
                => UNCHANGED <<stateDoc, repos, remote, secrets>>]_vars

\* C10 witness: push_templates raised on the second file; the first file is
\* on the host, nothing was saved, the lock was released and the run raised.
C10_Witness ==
    \E p \in Procs :
        /\ error[p] = "push_templates" /\ pc[p] = "done"
        /\ outcome[p] = "raised"
        /\ Count(p, "upload") = 2
        /\ 1 \in remote[Repo(p)]
        /\ stateDoc[project[p]] = NoName
        /\ LastCall(p) = "delete_item"

\* C11: an add_secret that raises changes nothing in the run: the run goes on
\* with the upload of workspace.yaml, the exception never becomes the run's
\* error, and a run in which nothing else raised has uploaded workspace.yaml,
\* saved the state document, released the lock once and returned its outputs.
C11_SecretBestEffort ==
    \A p \in Procs :
        "add_secret_failed" \in Names(p)
            => /\ pc[p] \in {"upload_file", "save_state", "write_output",
                             "release", "done"}
               /\ error[p] \in {"none", "upload_file", "save_state", "write_output"}
               /\ (pc[p] = "done" /\ error[p] = "none")
                      => /\ outcome[p] = "returned"
                         /\ Count(p, "save_state") = 1
                         /\ <<"upload", WorkspaceYaml>> \in
                                {calls[p][i] : i \in 1..Len(calls[p])}
                         /\ Releases(p) = 1
                         /\ stateDoc[project[p]] # NoName

\* C11 witness: a run whose add_secret raised has saved the state document,
\* released the lock and returned its outputs.
C11_Witness ==
    \E p \in Procs :
        /\ "add_secret_failed" \in Names(p)
        /\ pc[p] = "done" /\ outcome[p] = "returned"
        /\ "save_state" \in Names(p)
        /\ stateDoc[project[p]] = Repo(p)
        /\ LastCall(p) = "delete_item"

\* the statements of run_pipeline that follow the computation of repo_name
AfterLoad == {"ensure_repo", "push_templates", "add_secret", "upload_file",
              "save_state", "write_output"}

\* C12: in a sequence of serialized runs for one project, a repo_name held by
\* the state document is the name every run works with, and no step of any run
\* replaces it by another name: the name is never derived again.
C12_NameStability ==
    [][\A proj \in Projects :
          stateDoc[proj] # NoName
              => /\ stateDoc'[proj] = stateDoc[proj]
                 /\ \A p \in Procs :
                        (project[p] = proj /\ pc'[p] \in AfterLoad)
                            => /\ state'[p][proj] = stateDoc[proj]
                               /\ RepoNameOf(state'[p], proj) = stateDoc[proj]]_vars

\* C12 witness: a second run for a project whose recorded name is not the one
\* the present rule derives has saved the state document again, and the
\* document still holds the recorded name.
C12_Witness ==
    \E p \in Procs :
        /\ started >= 2
        /\ pc[p] = "done" /\ outcome[p] = "returned"
        /\ "save_state" \in Names(p)
        /\ stateDoc[project[p]] = LegacyRepoName
        /\ LegacyRepoName # DerivedRepoName(project[p])
        /\ DerivedRepoName(project[p]) \notin repos

\* the names the derivation is expected to give, written out
AcmeCorpRepoName == "Infoservices-acme-corp-llm"
Bot2RepoName == "Infoservices-bot-2-llm"
ExpectedRepoName == (AcmeCorp :> AcmeCorpRepoName) @@ (Bot2 :> Bot2RepoName)

\* C13: starting from no stored state, the name a run works with is the fixed
\* prefix, the slug of the project name and the fixed suffix ("Acme Corp" gives
\* Infoservices-acme-corp-llm); once a run has saved the state document, the
\* document holds that name under the project's entry, and every run that
\* returned finds it there.
C13_FirstRunDerivesName ==
    /\ \A proj \in Projects : DerivedRepoName(proj) = ExpectedRepoName[proj]
    /\ \A proj \in Projects : stateDoc[proj] \in {NoName, ExpectedRepoName[proj]}
    /\ repos \subseteq {ExpectedRepoName[proj] : proj \in Projects}
    /\ \A p \in Procs :
           /\ pc[p] \in AfterLoad => Repo(p) = ExpectedRepoName[project[p]]
           /\ (pc[p] = "write_output" \/ outcome[p] = "returned")
                  => /\ stateDoc[project[p]] = ExpectedRepoName[project[p]]
                     /\ ExpectedRepoName[project[p]] \in repos

\* C13 witness: the first run of all, for "Acme Corp", has returned and the
\* state document holds Infoservices-acme-corp-llm for the project.
C13_Witness ==
    \E p \in Procs :
        /\ started = 1
        /\ project[p] = AcmeCorp
        /\ pc[p] = "done" /\ outcome[p] = "returned"
        /\ stateDoc[AcmeCorp] = AcmeCorpRepoName
        /\ repos = {AcmeCorpRepoName}

\* C14: with either backend, a load_state that the store answers after a
\* save_state(doc) returns a document equal to doc, whatever was saved before
\* it, and a load_state that finds no object / no file returns the empty
\* document.
C14_StateRoundTrip ==
    (sbOp = "load" /\ loaded.err # "ClientError")
        => /\ saved.valid => loaded = Returned(saved.doc)
           /\ ~blob.exists => loaded = Returned(EmptyObject)

\* C14 witness: a nested document was saved over a longer text and loaded
\* back equal, by the local backend.
C14_Witness ==
    /\ backend = "local"
    /\ sbOp = "load"
    /\ saved.valid
    /\ loaded = Returned(saved.doc)
    /\ \E k \in DOMAIN saved.doc.m :
           /\ saved.doc.m[k].t = "object"
           /\ saved.doc.m[k].m # <<>>

\* C15: with either backend, a load_state that finds a blob which does not
\* parse as JSON returns the empty document and does not raise.
C15_EmptyOnParseFailure ==
    (sbOp = "load" /\ loaded.err # "ClientError"
        /\ blob.exists /\ ~Loads(blob.body).ok)
        => loaded = Returned(EmptyObject)

\* C16: save_state stores the saver's own copy of the document: what the run
\* loaded, with its own project's entry set.  Nothing is merged, so an entry
\* that another run saved after this run loaded is gone after this run saves.
C16_LostUpdate ==
    [][\A p \in Procs :
          (Leaves(p, "save_state") /\ error'[p] = "none")
              => /\ stateDoc' = [state[p] EXCEPT ![project[p]] = Repo(p)]
                 /\ \A proj \in Projects \ {project[p]} :
                        stateDoc'[proj] = state[p][proj]]_vars

\* C16 witness: two runs for different projects overlapped; both saved and
\* returned, and the stored document holds the entry of one project only.
C16_Witness ==
    \E p, q \in Procs :
        /\ project[p] # project[q]
        /\ pc[p] = "done" /\ outcome[p] = "returned"
        /\ pc[q] = "done" /\ outcome[q] = "returned"
        /\ "save_state" \in Names(p) /\ "save_state" \in Names(q)
        /\ stateDoc[project[p]] = NoName
        /\ stateDoc[project[q]] = DerivedRepoName(project[q])

\* the files of the tree with no segment in the exclusion set
NoSegmentExcluded ==
    {f \in tree : \A i \in 1..Len(f) : f[i] \notin ExcludePathFragments}

C18_GeneratorWorkflowExcluded ==
    GeneratorYml \in tree
        => /\ GeneratorYml \notin discovered
           /\ hostFile[GeneratorYml] = NoSha

\* C19: every PUT request of upload_file carries a sha exactly when the file
\* was in the repository at the lookup, and then it is the sha of that file.
C19_TokenIffExists ==
    \A r \in puts :
        /\ r.sha # NoSha <=> r.found # NoSha
        /\ r.sha # NoSha => r.sha = r.found

\* C20: when a sync has returned and the same folder is synced again, every
\* PUT request of the later sync carries a sha, no sync raises because a file
\* is already in the repository, and a sync that returns leaves in the
\* repository the local content of every file it handed over, as the sync
\* before it did.
C20_SyncIdempotent ==
    /\ runsDone >= 1 /\ syPc \notin {"done", "idle"} /\ runsDone < syRun
           => \A r \in puts : r.sha # NoSha
    /\ syError # "file_exists"
    /\ syPc = "done" => \A f \in NoSegmentExcluded : hostFile[f] = ShaOf(f)

\* C21 as stated: upload_file sends at most MaxAttempts PUT requests for a
\* file; a PUT that failed is followed by another attempt, so an error leaves
\* upload_file only after the last attempt; and upload_file returns without
\* an error only when the file is in the repository with the local content.
C21_BoundedRetry ==
    [][/\ attempt' <= MaxAttempts - 1
       /\ (syPc = "put" /\ syPc' = "raised") => attempt = MaxAttempts - 1
       /\ (syPc = "put" /\ syPc' = "walk") => hostFile'[cur] = ShaOf(cur)]_vars

\* C22 as stated: when a sync of the folder has raised and the folder is
\* synced again, a later sync that returns has sent every file with no
\* excluded segment again, and leaves each of them in the repository with the
\* local content.
C22_RecoveryByRerun ==
    (syPc = "done" /\ runsDone < syRun)
        => /\ {r.path : r \in puts} = NoSegmentExcluded
           /\ \A f \in NoSegmentExcluded : hostFile[f] = ShaOf(f)

\* the POST requests of the call of ensure_repo under way
Posts == {i \in 1..Len(erLog) : erLog[i].method = "POST"}
\* ensure_repo has returned or raised
EnsureRepoEnded == erPc \in {"returned", "raised"}

\* C23 as stated: a call of ensure_repo whose lookup is answered 200 returns
\* the metadata of the repository and sends no create; one whose lookup is
\* answered 404 sends exactly one create, with the name, visibility and
\* description it was given; one whose lookup fails otherwise raises without
\* a create; and over the calls made one after the other the host accepts at
\* most one create for a name.
C23_EnsureRepoIdempotent ==
    /\ EnsureRepoEnded
           => /\ erLog[1].status = 200
                    => /\ erPc = "returned"
                       /\ erRet = hostRepos[erArgs.repo_name]
                       /\ Posts = {}
              /\ erLog[1].status = 404
                    => /\ Cardinality(Posts) = 1
                       /\ \A i \in Posts : erLog[i].json = Payload(erArgs)
              /\ erLog[1].status \notin {200, 404}
                    => erPc = "raised" /\ Posts = {}
    /\ \A n \in ErNames : created[n] <= 1

\* C23, amended: after a lookup answered 404 ensure_repo asks for the type of
\* the owner; if that request fails it raises without a create, otherwise it
\* sends exactly one create, with the name, visibility and description it was
\* given, and returns the repository the host made of it.  The rest is as
\* stated.
C23_EnsureRepoCreatesOnce ==
    /\ EnsureRepoEnded
           => /\ erLog[1].status = 200
                    => /\ erPc = "returned"
                       /\ erRet = hostRepos[erArgs.repo_name]
                       /\ Posts = {}
              /\ erLog[1].status = 404
                    => /\ erLog[2].method = "GET"
                       /\ erLog[2].status # 200 => (erPc = "raised" /\ Posts = {})
                       /\ erLog[2].status = 200
                              => /\ Posts = {3}
                                 /\ erLog[3].json = Payload(erArgs)
                                 /\ erLog[3].url = Endpoint
                       /\ erPc = "returned"
                              => /\ erRet = Payload(erArgs)
                                 /\ hostRepos[erArgs.repo_name] = erRet
              /\ erLog[1].status \notin {200, 404}
                    => erPc = "raised" /\ Posts = {}
    /\ \A n \in ErNames : created[n] <= 1

\* C23 witness: the first call created the repository, and the second call,
\* for the same name, has returned it after its lookup alone.
C23_Witness ==
    /\ erCalls = 2 /\ erPc = "returned"
    /\ created[erArgs.repo_name] = 1
    /\ Len(erLog) = 1 /\ erLog[1].status = 200
    /\ erRet = hostRepos[erArgs.repo_name]
    /\ erRet.description # "kept"

\* the characters of [a-z0-9] in s, in their order
SlugChars(s) == SelectSeq(s, IsSlugChar)

\* C24: _slugify(name) keeps the characters of [a-z0-9] of the lowercased
\* name in their order and puts one "-" between two of them exactly where
\* other characters stood; it returns "llm-project" when the name holds no
\* such character ("", "!!", " - "); "My Cool Project!!" gives
\* "my-cool-project".  The result is never empty, holds only [a-z0-9-], has no
\* leading, trailing or doubled "-", and is its own slug.
C24_SlugShape ==
    /\ Slugify(MyCoolProject) =
           <<"m", "y", "-", "c", "o", "o", "l", "-",
             "p", "r", "o", "j", "e", "c", "t">>
    /\ Slugify(<<>>) = LlmProject
    /\ Slugify(<<"!", "!">>) = LlmProject
    /\ slugged # NoSlug
           => /\ Len(slugged) >= 1
              /\ \A i \in 1..Len(slugged) : IsSlugChar(slugged[i]) \/ slugged[i] = "-"
              /\ slugged[1] # "-" /\ slugged[Len(slugged)] # "-"
              /\ \A i \in 1..(Len(slugged) - 1) :
                     ~(slugged[i] = "-" /\ slugged[i + 1] = "-")
              /\ Slugify(slugged) = slugged
              /\ IF SlugChars(Lower(rawName)) = <<>>
                 THEN slugged = LlmProject
                 ELSE SlugChars(slugged) = SlugChars(Lower(rawName))

\* C24 witness: a name with an upper case letter and a run of punctuation has
\* been slugified to "m-2".
C24_Witness ==
    /\ rawName = <<"M", "_", "-", "2">>
    /\ slugged = <<"m", "-", "2">>

\* the calls that change the remote host or the state document
Mutations == {"ensure_repo", "upload", "add_secret", "save_state"}
ReleaseCalls == {"delete_item", "delete_item_failed"}

\* the put_item that was accepted: the last one of the invocation
AcquiredAt(p) ==
    CHOOSE i \in 1..Len(calls[p]) :
        /\ calls[p][i][1] = "put_item"
        /\ \A j \in (i + 1)..Len(calls[p]) : calls[p][j][1] # "put_item"

\* the calls of a run from the accepted put_item on, with the secret step
\* and the release given
StepOrder(secret, release) ==
    << <<"put_item", 0>>, <<"load_state", 0>>, <<"ensure_repo", 0>> >>
        \o [f \in 1..NFiles |-> <<"upload", f>>]
        \o secret
        \o << <<"upload", WorkspaceYaml>>, <<"save_state", 0>>, <<release, 0>> >>

\* PHOENIX_BASE_URL unset, add_secret done, add_secret failed and logged
SecretSteps == {<<>>, << <<"add_secret", 0>> >>, << <<"add_secret_failed", 0>> >>}

\* C25: a run that returned made its calls in this order from the accepted
\* put_item on: load_state, ensure_repo, the uploads of the template files,
\* add_secret (if any), the upload of workspace.yaml, save_state, delete_item.
\* In every run save_state is called at most once, and only after every
\* upload; and every call that changes the host or the state document comes
\* after the accepted put_item and before the release.
C25_StepOrder ==
    \A p \in Procs :
        /\ (pc[p] = "done" /\ outcome[p] = "returned")
               => \E secret \in SecretSteps, release \in ReleaseCalls :
                      SubSeq(calls[p], AcquiredAt(p), Len(calls[p]))
                          = StepOrder(secret, release)
        /\ Count(p, "save_state") <= 1
        /\ \A i \in 1..Len(calls[p]) :
               /\ calls[p][i][1] = "save_state"
                      => \A f \in 1..(NFiles + 1) :
                             \E j \in 1..(i - 1) : calls[p][j] = <<"upload", f>>
               /\ calls[p][i][1] \in Mutations
                      => /\ acquired[p] = "true"
                         /\ AcquiredAt(p) < i
                         /\ \A k \in 1..i : calls[p][k][1] \notin ReleaseCalls

\* C25 witness: a run that waited for the lease has returned after
\* provisioning the secret, with the state document holding its repo_name.
C25_Witness ==
    \E p \in Procs :
        /\ pc[p] = "done" /\ outcome[p] = "returned"
        /\ Count(p, "sleep") >= 1
        /\ Count(p, "add_secret") = 1
        /\ LastCall(p) = "delete_item"
        /\ stateDoc[project[p]] = Repo(p)

\* the most sleeps one call of acquire can make: a sleep follows a check made
\* before the deadline, and each sleep lasts poll_interval or more
MaxSleeps == (WaitSeconds + PollInterval - 1) \div PollInterval

\* acquire returns False to p
ReturnsFalse(p) == Leaves(p, "check_deadline") /\ acquired'[p] = "false"

\* C26 as stated: a call of acquire ends after a bounded number of attempts,
\* and it does not return False when the lease that is there could have been
\* taken at a time strictly before the caller's deadline (its expires_at was
\* passed by then) and nobody has taken it since.
C26_WaiterProgress ==
    [][\A p \in Procs :
          /\ Count(p, "put_item")' <= MaxSleeps + 1
          /\ ReturnsFalse(p) => ~(lease # NoLease /\ lease + 1 < deadline[p])]_vars

\* C26, amended: a call of acquire makes an attempt after every sleep, also
\* when the sleep ends at or past the deadline, and so ends after at most
\* MaxSleeps + 1 attempts; an attempt that finds no lease, or one whose
\* expires_at is less than the time read by the attempt, returns True (given
\* no backend error); and the call returns False only when its last attempt
\* was rejected and the time read after the rejection is at or past the
\* deadline, whatever became of the lease between the two.
C26_WaiterProgressAtAttempts ==
    [][\A p \in Procs :
          /\ Count(p, "put_item")' <= MaxSleeps + 1
          /\ Count(p, "sleep")' <= MaxSleeps
          /\ Leaves(p, "attempt") => (pc'[p] = "put_item" /\ now'[p] = clock)
          /\ (Leaves(p, "put_item") /\ error'[p] = "none"
                  /\ (lease = NoLease \/ lease < now[p]))
                 => (acquired'[p] = "true" /\ pc'[p] = "load_state")
          /\ ReturnsFalse(p)
                 => /\ clock >= deadline[p]
                    /\ LastCall(p) = "put_item"
                    /\ calls'[p] = calls[p]]_vars

\* C26 witness: a waiter that was rejected and slept as often as a call can
\* has acquired the lease on the attempt made after its last sleep.
C26_Witness ==
    \E p \in Procs :
        /\ pc[p] = "load_state" /\ acquired[p] = "true"
        /\ Count(p, "sleep") = MaxSleeps
        /\ Count(p, "put_item") = MaxSleeps + 1
        /\ lease = expires_at[p]

\* the members of the dict under key, none if the key is missing
MembersAt(obj, key) == IF key \in DOMAIN obj.m THEN obj.m[key].m ELSE <<>>

\* C27: when a run for project P that no other run overlaps has saved the
\* state document, the saved document has the keys of the loaded one and
\* "projects"; every key beside "projects", the entry of every other project
\* and every key of P's entry outside the five facts are as they were loaded;
\* P's entry holds the five facts, with the repo_name that was loaded if
\* there was one.
C27_SaveFrame ==
    runPc = "returned"
        => LET oldProjects == MembersAt(loadedDoc, "projects")
               newProjects == MembersAt(document, "projects")
               oldEntry == MembersAt(JObject(oldProjects), runProject)
               newEntry == MembersAt(JObject(newProjects), runProject)
           IN  /\ DOMAIN document.m = DOMAIN loadedDoc.m \cup {"projects"}
               /\ \A k \in DOMAIN loadedDoc.m \ {"projects"} :
                      document.m[k] = loadedDoc.m[k]
               /\ DOMAIN newProjects = DOMAIN oldProjects \cup {runProject}
               /\ \A q \in DOMAIN oldProjects \ {runProject} :
                      newProjects[q] = oldProjects[q]
               /\ DOMAIN newEntry = DOMAIN oldEntry \cup FactKeys
               /\ \A k \in DOMAIN oldEntry \ FactKeys : newEntry[k] = oldEntry[k]
               /\ newEntry["project_name"] = JString(runProject)
               /\ "repo_name" \in DOMAIN oldEntry
                      => newEntry["repo_name"] = oldEntry["repo_name"]
               /\ newEntry["repo_full_name"] = JString(FullNameOf[newEntry["repo_name"].s])
               /\ newEntry["repo_html_url"] = JString(HtmlUrlOf[newEntry["repo_name"].s])
               /\ newEntry["observability_enabled"].s \in {"true", "false"}

\* C27 witness: the second run, for Acme Corp, has saved a document that
\* still holds the key beside "projects", the entry of the other project and
\* the owner_team and legacy repo_name of its own entry, and whose
\* observability_enabled has changed.
C27_Witness ==
    /\ runPc = "returned" /\ runCount = 2 /\ runProject = AcmeCorp
    /\ "version" \in DOMAIN document.m
    /\ Bot2 \in DOMAIN MembersAt(document, "projects")
    /\ LET old == MembersAt(JObject(MembersAt(loadedDoc, "projects")), AcmeCorp)
           new == MembersAt(JObject(MembersAt(document, "projects")), AcmeCorp)
       IN  /\ {"owner_team", "observability_enabled"} \subseteq DOMAIN old
           /\ new["owner_team"] = JString("ml")
           /\ new["repo_name"] = JString(LegacyRepoName)
           /\ old["observability_enabled"] # new["observability_enabled"]

\* C28 as stated: a file is classified as text exactly when its first
\* PrefixChars characters decode as UTF-8; its whole content is then read in
\* that mode without an exception, whatever bytes follow the prefix, so the
\* file reaches upload_file.
C28_ClassificationNeverAborts ==
    /\ isText # "unset" => (isText = "true" <=> Decodes(content, PrefixChars))
    /\ rdPc # "raised"
    /\ rdPc = "upload_file"
           => readAs = (IF isText = "true" THEN "text" ELSE "binary")

====
